---- MODULE Spec2Model ----
(***************************************************************************)
(* A model of the reCAPTCHA v3 token handshake of src/src/captcha_solver.py *)
(* (class CaptchaSolver) over the transport of src/src/http_client.py.      *)
(*                                                                          *)
(* Text is a sequence of lexemes (each a TLA+ string); the lexemes are the  *)
(* literal pieces of the regular expressions and format strings of the      *)
(* source plus a few payload symbols.  A Python value that is `str or None` *)
(* is None == <<>> or Str(s) == <<s>> with s a sequence of lexemes.         *)
(***************************************************************************)
EXTENDS Integers, Sequences, FiniteSets, TLC

VARIABLES
    base_url,         \* self._base_url
    verbose,          \* self._verbose
    sitekey,          \* self.sitekey
    page_action,      \* self.page_action
    pc,               \* position of the running call
    api_type,         \* locals of solve_captcha
    constructed_url,
    co_value,
    anchor_url,
    anchor_token,
    captcha_token,
    ret,              \* value returned by the call
    exc,              \* exception the call raised
    requests,         \* requests handed to the transport, in order
    responses,        \* what the transport answered, in order
    console,          \* tables written to RichConsole
    calls,            \* solve_captcha calls this solver has finished
    peer,             \* the frame of a second call running on the same solver
    transport         \* the http_client module: its default timeout and clients

vars == <<base_url, verbose, sitekey, page_action, pc, api_type, constructed_url,
          co_value, anchor_url, anchor_token, captcha_token, ret, exc,
          requests, responses, console, calls, peer, transport>>

----------------------------------------------------------------------------
(* Bounds of the model. *)

MaxCalls == 2
MaxActionText == 4
MaxClients == 2
MaxSent == 2
MaxSitekeyText == 5
MaxVariantText == 6
MaxOriginLen == 4

----------------------------------------------------------------------------
(* Python values. *)

None == <<>>
Str(s) == <<s>>
Truthy(v) == v # None /\ v[1] # <<>>

\* str(v) as an f-string placeholder formats it
Format(v) == IF v = None THEN <<"None">> ELSE v[1]

NoExc == [type |-> "", msg |-> <<>>]
Return(v) == [exc |-> NoExc, val |-> v]
Raise(type, msg) == [exc |-> [type |-> type, msg |-> msg], val |-> None]

Min(S) == CHOOSE x \in S : \A y \in S : x <= y
Last(s) == s[Len(s)]
SeqsUpTo(S, n) == UNION {[1..k -> S] : k \in 0..n}

----------------------------------------------------------------------------
(* re.search over lexemes.  An alternative is pre (.*?) post, or            *)
(* pre (lit1|lit2|...) post when lits is not empty; group is the number of  *)
(* its capture group.                                                       *)

NL == "\n"
SQ == "'"
DQ == "\""

StartsAt(text, i, lit) ==
    /\ i + Len(lit) - 1 <= Len(text)
    /\ \A k \in 1..Len(lit) : text[i + k - 1] = lit[k]

\* the ends a lazy (.*?) may stop at: `.` does not match a newline
LazyEnds(text, from, post) ==
    {j \in from..(Len(text) + 1) :
        /\ StartsAt(text, j, post)
        /\ \A k \in from..(j - 1) : text[k] # NL}

MatchAltAt(text, i, alt) ==
    IF ~StartsAt(text, i, alt.pre) THEN None
    ELSE LET from == i + Len(alt.pre) IN
         IF alt.lits = <<>>
         THEN LET J == LazyEnds(text, from, alt.post) IN
              IF J = {} THEN None ELSE Str(SubSeq(text, from, Min(J) - 1))
         ELSE LET ok == {n \in 1..Len(alt.lits) :
                            /\ StartsAt(text, from, alt.lits[n])
                            /\ StartsAt(text, from + Len(alt.lits[n]), alt.post)} IN
              IF ok = {} THEN None ELSE Str(alt.lits[Min(ok)])

\* the leftmost position where an alternative matches, alternatives in order
Search(text, pattern) ==
    LET alts == pattern.alts
        hit(i) == {a \in 1..Len(alts) : MatchAltAt(text, i, alts[a]) # None}
        I == {i \in 1..Len(text) : hit(i) # {}}
    IN  IF I = {} THEN [matched |-> FALSE, groups |-> <<>>]
        ELSE LET i == Min(I)
                 a == Min(hit(i))
             IN  [matched |-> TRUE,
                  groups |-> [g \in 1..pattern.ngroups |->
                                 IF g = alts[a].group
                                 THEN MatchAltAt(text, i, alts[a])
                                 ELSE None]]

SitekeyPattern ==
    [ngroups |-> 3,
     alts |-> << [pre |-> <<"render=">>, lits |-> <<>>, post |-> <<SQ>>, group |-> 1],
                 [pre |-> <<"execute(", SQ>>, lits |-> <<>>, post |-> <<SQ>>, group |-> 2],
                 [pre |-> <<"&", "#x27;">>, lits |-> <<>>, post |-> <<"&">>, group |-> 3] >>]

PageActionPattern ==
    [ngroups |-> 1,
     alts |-> << [pre |-> <<"action: ", SQ>>, lits |-> <<>>, post |-> <<SQ>>, group |-> 1] >>]

ApiTypePattern ==
    [ngroups |-> 1,
     alts |-> << [pre |-> <<"/recaptcha/">>, lits |-> << <<"api">>, <<"enterprise">> >>,
                  post |-> <<".">>, group |-> 1] >>]

AnchorTokenPattern ==
    [ngroups |-> 1,
     alts |-> << [pre |-> <<"recaptcha-token", DQ, " value=", DQ>>, lits |-> <<>>,
                  post |-> <<DQ>>, group |-> 1] >>]

RrespPattern ==
    [ngroups |-> 1,
     alts |-> << [pre |-> <<DQ, "rresp", DQ, ",", DQ>>, lits |-> <<>>,
                  post |-> <<DQ>>, group |-> 1] >>]

----------------------------------------------------------------------------
(* The transport: HttpClient.get / HttpClient.post.  A response is what the *)
(* remote end answers; _make_request raises on anything but a 2xx status.   *)

Outcomes == {"2xx", "non2xx", "connect"}

OkResponse(text) == [outcome |-> "2xx", text |-> text]
FailedResponses == {[outcome |-> o, text |-> <<>>] : o \in Outcomes \ {"2xx"}}
ResponsesOf(bodies) == {OkResponse(t) : t \in bodies} \cup FailedResponses

\* raise_for_status left out
MakeRequestLenient(resp) ==
    IF resp.outcome = "connect" THEN Raise("ConnectError", <<>>)
    ELSE Return(Str(resp.text))

MakeRequest(resp) ==
    IF resp.outcome = "2xx" THEN Return(Str(resp.text))
    ELSE IF resp.outcome = "non2xx" THEN Raise("HTTPStatusError", <<>>)
    ELSE Raise("ConnectError", <<>>)

GetRequest(url) ==
    [method |-> "GET", url |-> url, headers |-> None, params |-> None, data |-> None]

PostRequest(url, headers, params, data) ==
    [method |-> "POST", url |-> url, headers |-> headers, params |-> params, data |-> data]

----------------------------------------------------------------------------
(* CaptchaSolver's methods, as functions of the response the client gets.  *)

\* match[1] or match[2] or match[3] or None: asking a match for a group the
\* pattern does not have raises IndexError
RECURSIVE OrGroups(_, _)
OrGroups(groups, k) ==
    IF k > 3 THEN Return(None)
    ELSE IF k > Len(groups) THEN Raise("IndexError", <<"no such group">>)
    ELSE IF Truthy(groups[k]) THEN Return(groups[k])
    ELSE OrGroups(groups, k + 1)

ExtractData(resp, pattern) ==
    LET got == MakeRequest(resp) IN
    IF got.exc # NoExc THEN got
    ELSE LET match == Search(got.val[1], pattern) IN
         IF match.matched THEN OrGroups(match.groups, 1) ELSE Return(None)

GetSitekey(resp) == ExtractData(resp, SitekeyPattern)

GetPageAction(resp) == ExtractData(resp, PageActionPattern)

\* a slip in the comparison: the segment compared instead of the capture
GetApiTypeTypo(resp) ==
    LET got == ExtractData(resp, ApiTypePattern) IN
    IF got.exc # NoExc THEN got
    ELSE Return(Str(IF got.val = Str(<<"api2">>) THEN <<"api2">> ELSE <<"enterprise">>))

GetApiType(resp) ==
    LET got == ExtractData(resp, ApiTypePattern) IN
    IF got.exc # NoExc THEN got
    ELSE Return(Str(IF got.val = Str(<<"api">>) THEN <<"api2">> ELSE <<"enterprise">>))

\* urlparse: the scheme is what precedes "://", the netloc what follows it
\* up to the first "/", "?" or "#"
UrlParse(url) ==
    LET S == {i \in 1..Len(url) : url[i] = "://"} IN
    IF S = {} THEN [scheme |-> <<>>, netloc |-> <<>>]
    ELSE LET i == Min(S)
             E == {j \in (i + 1)..Len(url) : url[j] \in {"/", "?", "#"}}
             e == IF E = {} THEN Len(url) + 1 ELSE Min(E)
         IN  [scheme |-> SubSeq(url, 1, i - 1), netloc |-> SubSeq(url, i + 1, e - 1)]

ConstructUrl(url, port) ==
    LET parsed_url == UrlParse(url) IN
    parsed_url.scheme \o <<"://">> \o parsed_url.netloc \o <<":">> \o port

\* str.encode(): the UTF-8 bytes of each lexeme
Utf8(tok) ==
    CASE tok = "https" -> <<104, 116, 116, 112, 115>>
      [] tok = "http" -> <<104, 116, 116, 112>>
      [] tok = "://" -> <<58, 47, 47>>
      [] tok = "a.io" -> <<97, 46, 105, 111>>
      [] tok = ":" -> <<58>>
      [] tok = "443" -> <<52, 52, 51>>
      [] tok = "8080" -> <<56, 48, 56, 48>>
      [] tok = "h" -> <<104>>
      [] tok = "/" -> <<47>>
      [] tok = "~" -> <<126>>
      [] tok = "U+00E9" -> <<195, 169>>

RECURSIVE Encode(_)
Encode(s) == IF s = <<>> THEN <<>> ELSE Utf8(s[1]) \o Encode(Tail(s))

B64Chars ==
    <<
       "A", "B", "C", "D", "E", "F", "G", "H", "I", "J", "K", "L", "M", "N", "O", "P",
       "Q", "R", "S", "T", "U", "V", "W", "X", "Y", "Z", "a", "b", "c", "d", "e", "f",
       "g", "h", "i", "j", "k", "l", "m", "n", "o", "p", "q", "r", "s", "t", "u", "v",
       "w", "x", "y", "z", "0", "1", "2", "3", "4", "5", "6", "7", "8", "9", "+", "/"
    >>

\* base64.b64encode(...).decode(): one character per lexeme
RECURSIVE B64Encode(_)
B64Encode(b) ==
    IF Len(b) = 0 THEN <<>>
    ELSE IF Len(b) = 1
    THEN <<B64Chars[(b[1] \div 4) + 1], B64Chars[(b[1] % 4) * 16 + 1], "=", "=">>
    ELSE IF Len(b) = 2
    THEN <<B64Chars[(b[1] \div 4) + 1],
           B64Chars[(b[1] % 4) * 16 + (b[2] \div 16) + 1],
           B64Chars[(b[2] % 16) * 4 + 1], "=">>
    ELSE <<B64Chars[(b[1] \div 4) + 1],
           B64Chars[(b[1] % 4) * 16 + (b[2] \div 16) + 1],
           B64Chars[(b[2] % 16) * 4 + (b[3] \div 64) + 1],
           B64Chars[(b[3] % 64) + 1]>> \o B64Encode(SubSeq(b, 4, Len(b)))

RECURSIVE RStrip(_, _)
RStrip(s, c) ==
    IF s # <<>> /\ Last(s) = c THEN RStrip(SubSeq(s, 1, Len(s) - 1), c) ELSE s

Repeat(c, n) == [k \in 1..n |-> c]

\* the padding stripped and no filler appended
EncodeCoNoFiller(url) == RStrip(B64Encode(Encode(url)), "=")

EncodeCo(url) ==
    LET encoded_url == B64Encode(Encode(url)) IN
    RStrip(encoded_url, "=")
        \o Repeat(".", Len(encoded_url) - Len(RStrip(encoded_url, "=")))

CAPTCHA_URL == <<"https://www.google.com/recaptcha">>

\* k and co exchanged
ConstructAnchorSwapped(key, co, api) ==
    CAPTCHA_URL \o <<"/">> \o Format(api) \o <<"/anchor?ar=1&k=">> \o Format(co)
        \o <<"&co=">> \o Format(key) \o <<"&hl=en&size=invisible">>

ConstructAnchor(key, co, api) ==
    CAPTCHA_URL \o <<"/">> \o Format(api) \o <<"/anchor?ar=1&k=">> \o Format(key)
        \o <<"&co=">> \o Format(co) \o <<"&hl=en&size=invisible">>

GetAnchorToken(resp) == ExtractData(resp, AnchorTokenPattern)

\* k and co exchanged
BuildPayloadSwapped(token, co, key) ==
    <<"reason=q&c=">> \o Format(token) \o <<"&k=">> \o Format(co)
        \o <<"&co=">> \o Format(key)

BuildPayload(token, co, key) ==
    <<"reason=q&c=">> \o Format(token) \o <<"&k=">> \o Format(key)
        \o <<"&co=">> \o Format(co)

ReloadRequest(token, co, key, api) ==
    PostRequest(CAPTCHA_URL \o <<"/">> \o Format(api) \o <<"/reload">>,
                [ContentType |-> "application/x-www-form-urlencoded"],
                [k |-> key],
                BuildPayload(token, co, key))

\* match[1] if match else None
GetCaptchaToken(resp) ==
    LET got == MakeRequest(resp) IN
    IF got.exc # NoExc THEN got
    ELSE LET match == Search(got.val[1], RrespPattern) IN
         Return(IF match.matched THEN match.groups[1] ELSE None)

----------------------------------------------------------------------------
(* The solver's construction arguments and what the remote ends answer.     *)

Schemes == {<<"https">>, <<"http">>}
Hosts == {<<"a.io">>}
Ports == {None, Str(<<"8080">>), Str(<<"443">>)}
Paths == {<<>>, <<"/", "demo">>}

UrlOf(scheme, host, port, path) ==
    scheme \o <<"://">> \o host
        \o (IF port = None THEN <<>> ELSE <<":">> \o port[1]) \o path

BaseUrls == {UrlOf(s, h, p, q) : s \in Schemes, h \in Hosts, p \in Ports, q \in Paths}

RenderKey == <<"render=", "K1", SQ>>
ExecuteKey == <<"execute(", SQ, "K2", SQ>>
ActionLabel == <<"action: ", SQ, "A1", SQ>>
StandardMarker == <<"/recaptcha/", "api", ".">>
EnterpriseMarker == <<"/recaptcha/", "enterprise", ".">>

TargetBodies ==
    { RenderKey \o ActionLabel \o StandardMarker,
      ExecuteKey \o EnterpriseMarker,
      RenderKey,
      <<"x">>,
      <<"render=", SQ>> \o StandardMarker,
      RenderKey \o <<"action: ", SQ, SQ>> \o StandardMarker }

TokenField(v) == <<"recaptcha-token", DQ, " value=", DQ>> \o v \o <<DQ>>
AnchorBodies == { TokenField(<<"T1">>), <<"x">>, TokenField(<<>>) }

RrespField(v) == <<DQ, "rresp", DQ, ",", DQ>> \o v \o <<DQ>>
ReloadBodies == { RrespField(<<"V1">>), <<"x">>, RrespField(<<>>) }

SitekeyLexemes == {"render=", "execute(", SQ, "&", "#x27;", "K", NL}
SitekeyTexts == SeqsUpTo(SitekeyLexemes, MaxSitekeyText)

VariantLexemes == {"/recaptcha/", "api", "enterprise", "."}
VariantTexts == SeqsUpTo(VariantLexemes, MaxVariantText)

ActionLexemes == {"action: ", SQ, "A", NL}
ActionTexts == SeqsUpTo(ActionLexemes, MaxActionText)

OriginLexemes == {"h", ":", "/", "~", "U+00E9"}
OriginStrings == SeqsUpTo(OriginLexemes, MaxOriginLen)

----------------------------------------------------------------------------
(* CaptchaSolver.__init__ *)

\* a call frame before its first statement
NewFrame ==
    [pc |-> "idle", api_type |-> None, constructed_url |-> None, co_value |-> None,
     anchor_url |-> None, anchor_token |-> None, captcha_token |-> None,
     ret |-> None, exc |-> NoExc, requests |-> <<>>, responses |-> <<>>]

\* the http_client module before it is imported
NotImported ==
    [loaded |-> FALSE, default_timeout |-> 0, draws |-> 0, clients |-> <<>>, sent |-> <<>>]

Init ==
    /\ base_url \in BaseUrls
    /\ verbose \in BOOLEAN
    /\ sitekey = None
    /\ page_action = None
    /\ pc = "idle"
    /\ api_type = None
    /\ constructed_url = None
    /\ co_value = None
    /\ anchor_url = None
    /\ anchor_token = None
    /\ captcha_token = None
    /\ ret = None
    /\ exc = NoExc
    /\ requests = <<>>
    /\ responses = <<>>
    /\ console = <<>>
    /\ calls = 0
    /\ peer = NewFrame
    /\ transport = NotImported

InitUnit ==
    /\ Init
    /\ base_url = <<"https", "://", "a.io">>
    /\ verbose = FALSE

----------------------------------------------------------------------------
(* CaptchaSolver.solve_captcha, one action per fetch it blocks on.          *)

Propagate(e) ==
    /\ pc' = "raised"
    /\ exc' = e

\* the check of line 245 left out
DoSolveSitekeyUnchecked(resp) ==
    LET got == GetSitekey(resp) IN
    /\ requests' = Append(requests, GetRequest(base_url))
    /\ responses' = Append(responses, resp)
    /\ IF got.exc # NoExc
       THEN Propagate(got.exc) /\ UNCHANGED sitekey
       ELSE sitekey' = got.val /\ pc' = "get_page_action" /\ UNCHANGED exc
    /\ UNCHANGED <<calls, peer, transport, base_url, verbose, page_action, api_type, constructed_url, co_value,
                   anchor_url, anchor_token, captcha_token, ret, console>>

\* self.sitekey = self._get_sitekey(client); if not self.sitekey: raise
DoSolveSitekey(resp) ==
    LET got == GetSitekey(resp) IN
    /\ requests' = Append(requests, GetRequest(base_url))
    /\ responses' = Append(responses, resp)
    /\ IF got.exc # NoExc
       THEN Propagate(got.exc) /\ UNCHANGED sitekey
       ELSE /\ sitekey' = got.val
            /\ IF ~Truthy(got.val)
               THEN Propagate([type |-> "ValueError", msg |-> <<"Sitekey not found!">>])
               ELSE pc' = "get_page_action" /\ UNCHANGED exc
    /\ UNCHANGED <<calls, peer, transport, base_url, verbose, page_action, api_type, constructed_url, co_value,
                   anchor_url, anchor_token, captcha_token, ret, console>>

SolveSitekey ==
    /\ pc = "idle"
    /\ \E resp \in ResponsesOf(TargetBodies) : DoSolveSitekey(resp)

\* self.page_action = self._get_page_action(client)
DoSolvePageAction(resp) ==
    LET got == GetPageAction(resp) IN
    /\ requests' = Append(requests, GetRequest(base_url))
    /\ responses' = Append(responses, resp)
    /\ IF got.exc # NoExc
       THEN Propagate(got.exc) /\ UNCHANGED page_action
       ELSE page_action' = got.val /\ pc' = "get_api_type" /\ UNCHANGED exc
    /\ UNCHANGED <<calls, peer, transport, base_url, verbose, sitekey, api_type, constructed_url, co_value,
                   anchor_url, anchor_token, captcha_token, ret, console>>

SolvePageAction ==
    /\ pc = "get_page_action"
    /\ \E resp \in ResponsesOf(TargetBodies) : DoSolvePageAction(resp)

\* api_type = self._get_api_type(client); if not api_type: raise;
\* constructed_url, co_value and anchor_url follow without another fetch
DoSolveApiType(resp) ==
    LET got == GetApiType(resp)
        url == ConstructUrl(base_url, <<"443">>)
        co == EncodeCo(url)
    IN
    /\ requests' = Append(requests, GetRequest(base_url))
    /\ responses' = Append(responses, resp)
    /\ IF got.exc # NoExc
       THEN /\ Propagate(got.exc)
            /\ UNCHANGED <<api_type, constructed_url, co_value, anchor_url>>
       ELSE /\ api_type' = got.val
            /\ IF ~Truthy(got.val)
               THEN /\ Propagate([type |-> "ValueError",
                                  msg |-> <<"API Type not found! Please check the response text from ">>
                                              \o base_url])
                    /\ UNCHANGED <<constructed_url, co_value, anchor_url>>
               ELSE /\ constructed_url' = Str(url)
                    /\ co_value' = Str(co)
                    /\ anchor_url' = Str(ConstructAnchor(sitekey, Str(co), got.val))
                    /\ pc' = "get_anchor_token"
                    /\ UNCHANGED exc
    /\ UNCHANGED <<calls, peer, transport, base_url, verbose, sitekey, page_action, anchor_token, captcha_token,
                   ret, console>>

SolveApiType ==
    /\ pc = "get_api_type"
    /\ \E resp \in ResponsesOf(TargetBodies) : DoSolveApiType(resp)

\* a failed anchor fetch swallowed, the reload step taken with no token
DoSolveAnchorTokenTolerant(resp) ==
    LET got == GetAnchorToken(resp) IN
    /\ requests' = Append(requests, GetRequest(Format(anchor_url)))
    /\ responses' = Append(responses, resp)
    /\ anchor_token' = IF got.exc # NoExc THEN None ELSE got.val
    /\ pc' = "get_captcha_token"
    /\ UNCHANGED exc
    /\ UNCHANGED <<calls, peer, transport, base_url, verbose, sitekey, page_action, api_type, constructed_url,
                   co_value, anchor_url, captcha_token, ret, console>>

\* anchor_token = self._get_anchor_token(client, anchor_url)
DoSolveAnchorToken(resp) ==
    LET got == GetAnchorToken(resp) IN
    /\ requests' = Append(requests, GetRequest(Format(anchor_url)))
    /\ responses' = Append(responses, resp)
    /\ IF got.exc # NoExc
       THEN Propagate(got.exc) /\ UNCHANGED anchor_token
       ELSE anchor_token' = got.val /\ pc' = "get_captcha_token" /\ UNCHANGED exc
    /\ UNCHANGED <<calls, peer, transport, base_url, verbose, sitekey, page_action, api_type, constructed_url,
                   co_value, anchor_url, captcha_token, ret, console>>

SolveAnchorToken ==
    /\ pc = "get_anchor_token"
    /\ \E resp \in ResponsesOf(AnchorBodies) : DoSolveAnchorToken(resp)

CaptchaData(token) ==
    [sitekey |-> sitekey, page_action |-> page_action, api_type |-> api_type,
     constructed_url |-> constructed_url, co_value |-> co_value,
     anchor_url |-> anchor_url, anchor_token |-> anchor_token, captcha_token |-> token]

\* RichConsole.print(table): the table goes to the reporting surface
RichConsolePrint(out, table) == Append(out, table)

\* a verbose run that gives up on a table with an absent token
DoSolveCaptchaTokenStrictTable(resp) ==
    LET got == GetCaptchaToken(resp) IN
    /\ requests' = Append(requests, ReloadRequest(anchor_token, co_value, sitekey, api_type))
    /\ responses' = Append(responses, resp)
    /\ IF got.exc # NoExc
       THEN Propagate(got.exc) /\ UNCHANGED <<captcha_token, ret, console>>
       ELSE IF verbose /\ got.val = None
       THEN /\ captcha_token' = got.val
            /\ Propagate([type |-> "NotRenderableError", msg |-> <<>>])
            /\ UNCHANGED <<ret, console>>
       ELSE /\ captcha_token' = got.val
            /\ console' = IF verbose THEN RichConsolePrint(console, CaptchaData(got.val))
                          ELSE console
            /\ ret' = got.val
            /\ pc' = "returned"
            /\ UNCHANGED exc
    /\ UNCHANGED <<calls, peer, transport, base_url, verbose, sitekey, page_action, api_type, constructed_url,
                   co_value, anchor_url, anchor_token>>

\* captcha_token = self._get_captcha_token(...); the table when verbose;
\* return captcha_token
DoSolveCaptchaToken(resp) ==
    LET got == GetCaptchaToken(resp) IN
    /\ requests' = Append(requests, ReloadRequest(anchor_token, co_value, sitekey, api_type))
    /\ responses' = Append(responses, resp)
    /\ IF got.exc # NoExc
       THEN Propagate(got.exc) /\ UNCHANGED <<captcha_token, ret, console>>
       ELSE /\ captcha_token' = got.val
            /\ console' = IF verbose THEN RichConsolePrint(console, CaptchaData(got.val))
                          ELSE console
            /\ ret' = got.val
            /\ pc' = "returned"
            /\ UNCHANGED exc
    /\ UNCHANGED <<calls, peer, transport, base_url, verbose, sitekey, page_action, api_type, constructed_url,
                   co_value, anchor_url, anchor_token>>

SolveCaptchaToken ==
    /\ pc = "get_captcha_token"
    /\ \E resp \in ResponsesOf(ReloadBodies) : DoSolveCaptchaToken(resp)

Next ==
    \/ SolveSitekey
    \/ SolvePageAction
    \/ SolveApiType
    \/ SolveAnchorToken
    \/ SolveCaptchaToken

Spec == Init /\ [][Next]_vars

----------------------------------------------------------------------------
(* One solver used for several calls, one after the other: solve_captcha    *)
(* starts with fresh locals and a fresh transcript, self.sitekey and        *)
(* self.page_action are what the call before left.                          *)

CallAgain ==
    /\ pc \in {"returned", "raised"}
    /\ calls + 1 < MaxCalls
    /\ calls' = calls + 1
    /\ pc' = NewFrame.pc
    /\ api_type' = NewFrame.api_type
    /\ constructed_url' = NewFrame.constructed_url
    /\ co_value' = NewFrame.co_value
    /\ anchor_url' = NewFrame.anchor_url
    /\ anchor_token' = NewFrame.anchor_token
    /\ captcha_token' = NewFrame.captcha_token
    /\ ret' = NewFrame.ret
    /\ exc' = NewFrame.exc
    /\ requests' = NewFrame.requests
    /\ responses' = NewFrame.responses
    /\ UNCHANGED <<base_url, verbose, sitekey, page_action, console, peer, transport>>

NextReuse ==
    \/ SolveSitekey
    \/ SolvePageAction
    \/ SolveApiType
    \/ SolveAnchorToken
    \/ SolveCaptchaToken
    \/ CallAgain

SpecReuse == InitUnit /\ [][NextReuse]_vars

----------------------------------------------------------------------------
(* Two solve_captcha calls running at once on one solver, each with its own *)
(* client: the first in the variables above, the second in peer.  Both read *)
(* and write self.sitekey and self.page_action; a call can be overtaken     *)
(* wherever it blocks on a fetch.                                           *)

ConcurrentTargets ==
    {OkResponse(RenderKey \o ActionLabel \o StandardMarker),
     OkResponse(ExecuteKey \o EnterpriseMarker)}
ConcurrentAnchors == {OkResponse(TokenField(<<"T1">>))}
ConcurrentReloads == {OkResponse(RrespField(<<"V1">>))}

FirstSitekey == pc = "idle" /\ \E resp \in ConcurrentTargets : DoSolveSitekey(resp)
FirstPageAction ==
    pc = "get_page_action" /\ \E resp \in ConcurrentTargets : DoSolvePageAction(resp)
FirstApiType == pc = "get_api_type" /\ \E resp \in ConcurrentTargets : DoSolveApiType(resp)
FirstAnchorToken ==
    pc = "get_anchor_token" /\ \E resp \in ConcurrentAnchors : DoSolveAnchorToken(resp)
FirstCaptchaToken ==
    pc = "get_captcha_token" /\ \E resp \in ConcurrentReloads : DoSolveCaptchaToken(resp)

PeerFrame == <<pc, api_type, constructed_url, co_value, anchor_url, anchor_token,
               captcha_token, ret, exc, requests, responses, base_url, verbose,
               calls, transport>>

PeerFetched(request, resp) ==
    [peer EXCEPT !.requests = Append(@, request), !.responses = Append(@, resp)]

PeerRaised(frame, e) == [frame EXCEPT !.pc = "raised", !.exc = e]

\* self.sitekey = self._get_sitekey(client); if not self.sitekey: raise
PeerSitekey ==
    /\ peer.pc = "idle"
    /\ \E resp \in ConcurrentTargets :
          LET got == GetSitekey(resp)
              frame == PeerFetched(GetRequest(base_url), resp)
          IN  IF got.exc # NoExc
              THEN peer' = PeerRaised(frame, got.exc) /\ UNCHANGED sitekey
              ELSE /\ sitekey' = got.val
                   /\ peer' = IF ~Truthy(got.val)
                              THEN PeerRaised(frame, [type |-> "ValueError",
                                                      msg |-> <<"Sitekey not found!">>])
                              ELSE [frame EXCEPT !.pc = "get_page_action"]
    /\ UNCHANGED <<PeerFrame, page_action, console>>

\* self.page_action = self._get_page_action(client)
PeerPageAction ==
    /\ peer.pc = "get_page_action"
    /\ \E resp \in ConcurrentTargets :
          LET got == GetPageAction(resp)
              frame == PeerFetched(GetRequest(base_url), resp)
          IN  IF got.exc # NoExc
              THEN peer' = PeerRaised(frame, got.exc) /\ UNCHANGED page_action
              ELSE /\ page_action' = got.val
                   /\ peer' = [frame EXCEPT !.pc = "get_api_type"]
    /\ UNCHANGED <<PeerFrame, sitekey, console>>

\* api_type, constructed_url, co_value and anchor_url, the last from self.sitekey
PeerApiType ==
    /\ peer.pc = "get_api_type"
    /\ \E resp \in ConcurrentTargets :
          LET got == GetApiType(resp)
              frame == PeerFetched(GetRequest(base_url), resp)
              url == ConstructUrl(base_url, <<"443">>)
              co == EncodeCo(url)
          IN  peer' = IF got.exc # NoExc THEN PeerRaised(frame, got.exc)
                      ELSE [frame EXCEPT
                               !.api_type = got.val,
                               !.constructed_url = Str(url),
                               !.co_value = Str(co),
                               !.anchor_url = Str(ConstructAnchor(sitekey, Str(co), got.val)),
                               !.pc = "get_anchor_token"]
    /\ UNCHANGED <<PeerFrame, sitekey, page_action, console>>

\* anchor_token = self._get_anchor_token(client, anchor_url)
PeerAnchorToken ==
    /\ peer.pc = "get_anchor_token"
    /\ \E resp \in ConcurrentAnchors :
          LET got == GetAnchorToken(resp)
              frame == PeerFetched(GetRequest(Format(peer.anchor_url)), resp)
          IN  peer' = IF got.exc # NoExc THEN PeerRaised(frame, got.exc)
                      ELSE [frame EXCEPT !.anchor_token = got.val,
                                         !.pc = "get_captcha_token"]
    /\ UNCHANGED <<PeerFrame, sitekey, page_action, console>>

\* captcha_token = self._get_captcha_token(..., self.sitekey, ...); the table
\* when verbose; return captcha_token
PeerCaptchaToken ==
    /\ peer.pc = "get_captcha_token"
    /\ \E resp \in ConcurrentReloads :
          LET got == GetCaptchaToken(resp)
              frame == PeerFetched(ReloadRequest(peer.anchor_token, peer.co_value,
                                                 sitekey, peer.api_type), resp)
          IN  IF got.exc # NoExc
              THEN peer' = PeerRaised(frame, got.exc) /\ UNCHANGED console
              ELSE /\ peer' = [frame EXCEPT !.captcha_token = got.val, !.ret = got.val,
                                            !.pc = "returned"]
                   /\ console' = IF verbose
                                 THEN RichConsolePrint(console,
                                             [sitekey |-> sitekey,
                                              page_action |-> page_action,
                                              api_type |-> peer.api_type,
                                              constructed_url |-> peer.constructed_url,
                                              co_value |-> peer.co_value,
                                              anchor_url |-> peer.anchor_url,
                                              anchor_token |-> peer.anchor_token,
                                              captcha_token |-> got.val])
                                 ELSE console
    /\ UNCHANGED <<PeerFrame, sitekey, page_action>>

NextConcurrent ==
    \/ FirstSitekey
    \/ FirstPageAction
    \/ FirstApiType
    \/ FirstAnchorToken
    \/ FirstCaptchaToken
    \/ PeerSitekey
    \/ PeerPageAction
    \/ PeerApiType
    \/ PeerAnchorToken
    \/ PeerCaptchaToken

SpecConcurrent == InitUnit /\ [][NextConcurrent]_vars

----------------------------------------------------------------------------
(* Single methods called on a fresh solver, over every text up to a bound.  *)

Finish(got) ==
    /\ ret' = got.val
    /\ exc' = got.exc
    /\ pc' = IF got.exc = NoExc THEN "returned" ELSE "raised"

\* solver._get_sitekey(client)
CallGetSitekey ==
    /\ pc = "idle"
    /\ \E text \in SitekeyTexts :
          /\ requests' = Append(requests, GetRequest(base_url))
          /\ responses' = Append(responses, OkResponse(text))
          /\ Finish(GetSitekey(OkResponse(text)))
    /\ UNCHANGED <<calls, peer, transport, base_url, verbose, sitekey, page_action, api_type, constructed_url,
                   co_value, anchor_url, anchor_token, captcha_token, console>>

SpecSitekey == InitUnit /\ [][CallGetSitekey]_vars

\* solver._get_api_type(client)
CallGetApiType ==
    /\ pc = "idle"
    /\ \E text \in VariantTexts :
          /\ requests' = Append(requests, GetRequest(base_url))
          /\ responses' = Append(responses, OkResponse(text))
          /\ Finish(GetApiType(OkResponse(text)))
    /\ UNCHANGED <<calls, peer, transport, base_url, verbose, sitekey, page_action, api_type, constructed_url,
                   co_value, anchor_url, anchor_token, captcha_token, console>>

SpecVariant == InitUnit /\ [][CallGetApiType]_vars

\* uniform(10, 15), the default of __init__'s timeout parameter; the draw is
\* a real number, kept here to whole seconds
TimeoutLow == 10
TimeoutHigh == 15
\* timeouts a caller passes explicitly
ExplicitTimeouts == {5}

Frame == <<base_url, verbose, sitekey, page_action, pc, api_type, constructed_url,
           co_value, anchor_url, anchor_token, captcha_token, ret, exc, requests,
           responses, console, calls, peer>>

\* import of http_client: the def statement of __init__ evaluates its
\* default-argument expressions, uniform(10, 15) among them
ImportHttpClient ==
    /\ ~transport.loaded
    /\ \E t \in TimeoutLow..TimeoutHigh :
          transport' = [transport EXCEPT !.loaded = TRUE, !.default_timeout = t,
                                         !.draws = @ + 1]
    /\ UNCHANGED Frame

\* HttpClient(...): httpx.Client(timeout=timeout), timeout being the stored
\* default when the caller passes none
HttpClientInit ==
    /\ transport.loaded
    /\ Len(transport.clients) < MaxClients
    /\ \E by_default \in BOOLEAN :
          \E timeout \in IF by_default THEN {transport.default_timeout}
                                       ELSE ExplicitTimeouts :
              transport' = [transport EXCEPT !.clients =
                              Append(@, [timeout |-> timeout, by_default |-> by_default])]
    /\ UNCHANGED Frame

\* client.get / client.post: self._client.request(method, url, **kwargs), no
\* timeout among the kwargs, so the client's own applies
ClientRequest ==
    /\ Len(transport.sent) < MaxSent
    /\ \E c \in 1..Len(transport.clients) :
          transport' = [transport EXCEPT !.sent =
                          Append(@, [client |-> c, timeout |-> transport.clients[c].timeout])]
    /\ UNCHANGED Frame

NextClient ==
    \/ ImportHttpClient
    \/ HttpClientInit
    \/ ClientRequest

SpecClient == InitUnit /\ [][NextClient]_vars

\* solver._get_page_action(client)
CallGetPageAction ==
    /\ pc = "idle"
    /\ \E text \in ActionTexts :
          /\ requests' = Append(requests, GetRequest(base_url))
          /\ responses' = Append(responses, OkResponse(text))
          /\ Finish(GetPageAction(OkResponse(text)))
    /\ UNCHANGED <<calls, peer, transport, base_url, verbose, sitekey, page_action,
                   api_type, constructed_url, co_value, anchor_url, anchor_token,
                   captcha_token, console>>

SpecAction == InitUnit /\ [][CallGetPageAction]_vars

\* solver._encode_co(constructed_url)
CallEncodeCo ==
    /\ pc = "idle"
    /\ \E url \in OriginStrings :
          /\ constructed_url' = Str(url)
          /\ Finish(Return(Str(EncodeCo(url))))
    /\ UNCHANGED <<calls, peer, transport, base_url, verbose, sitekey, page_action, api_type, co_value,
                   anchor_url, anchor_token, captcha_token, requests, responses, console>>

SpecEncode == InitUnit /\ [][CallEncodeCo]_vars

----------------------------------------------------------------------------
(* The claims.                                                              *)

Contains(text, lit) == \E i \in 1..Len(text) : StartsAt(text, i, lit)
FirstAt(text, lit) == Min({i \in 1..Len(text) : StartsAt(text, i, lit)} \cup {Len(text) + 1})
HasVariant(text) == Contains(text, StandardMarker) \/ Contains(text, EnterpriseMarker)
AllOk == \A k \in 1..Len(responses) : responses[k].outcome = "2xx"

SuccessTarget == OkResponse(RenderKey \o ActionLabel \o StandardMarker)
SuccessAnchor == OkResponse(TokenField(<<"T1">>))
SuccessReload == OkResponse(RrespField(<<"V1">>))

\* C1: in a successful resolution (render-form site key, action label and
\* standard marker on the target page, a token in the anchor response, an
\* rresp value in the reload response) solve_captcha issues exactly three
\* requests, GET target page, GET anchor URL, POST reload, returns the rresp
\* value and exposes the action label.
C1_ThreeRequests ==
    (/\ pc = "returned"
     /\ \A k \in 1..Len(responses) :
           responses[k] \in {SuccessTarget, SuccessAnchor, SuccessReload})
    => /\ Len(requests) = 3
       /\ requests[1].method = "GET" /\ requests[1].url = base_url
       /\ requests[2].method = "GET" /\ requests[2].url = anchor_url[1]
       /\ requests[3].method = "POST"
       /\ ret = Str(<<"V1">>)
       /\ page_action = Str(<<"A1">>)

\* C2: when the target page text has a site key but neither variant marker,
\* solve_captcha ends raised with an error naming the queried URL, and
\* neither the anchor GET nor the reload POST is issued.
C2_NoVariantIsFatal ==
    (/\ Len(responses) >= 3
     /\ responses[3].outcome = "2xx"
     /\ responses[1] = responses[3] /\ responses[2] = responses[3]
     /\ Truthy(sitekey)
     /\ ~HasVariant(responses[3].text))
    => /\ pc = "raised"
       /\ exc.type = "ValueError"
       /\ Contains(exc.msg, base_url)
       /\ Len(requests) = 3

\* C3: when site-key extraction on the fetched target page yields absent,
\* solve_captcha has raised at once: that fetch is the only request issued
\* and nothing is returned.
C3_NoSitekeyRaisesAtOnce ==
    (/\ Len(responses) >= 1
     /\ responses[1].outcome = "2xx"
     /\ ~Truthy(sitekey))
    => /\ pc = "raised"
       /\ exc = [type |-> "ValueError", msg |-> <<"Sitekey not found!">>]
       /\ Len(requests) = 1
       /\ requests[1] = GetRequest(base_url)
       /\ ret = None

\* the site-key capture was empty, and the call raised on it
C3_Witness ==
    /\ pc = "raised"
    /\ responses = <<OkResponse(<<"render=", SQ>> \o StandardMarker)>>
    /\ exc.msg = <<"Sitekey not found!">>

\* C4: with the site key and the variant found and every response a 2xx,
\* solve_captcha never raises over an absent or empty action, anchor token
\* or verification token: it returns, having issued the anchor GET and the
\* reload POST, and returns None when the reload body has no rresp.
C4_AbsenceNeverRaises ==
    (/\ AllOk
     /\ Truthy(sitekey)
     /\ \A k \in 1..Len(responses) : k <= 3 => HasVariant(responses[k].text))
    => /\ pc # "raised"
       /\ pc = "returned" =>
             /\ Len(requests) = 5
             /\ requests[4].method = "GET"
             /\ requests[5].method = "POST"
             /\ (~Contains(responses[5].text, <<"rresp">>) => ret = None)

\* the keys the n-th form of the site-key pattern captures somewhere in text
HasForm(text, n) ==
    \E i \in 1..Len(text) : MatchAltAt(text, i, SitekeyPattern.alts[n]) # None
FormKeys(text, n) ==
    {MatchAltAt(text, i, SitekeyPattern.alts[n])[1] :
        i \in {j \in 1..Len(text) : MatchAltAt(text, j, SitekeyPattern.alts[n]) # None}}
    \ {<<>>}

\* C5: site-key extraction takes the render form before the execute form
\* before the entity-escaped form wherever they stand in the text: a text
\* with render=XYZ' gives XYZ, one with no render form but execute('ABC'
\* gives ABC, one with neither but &#x27;QRS& gives QRS, one with none of
\* the three gives absent.
C5_PriorityOrder ==
    pc = "returned" =>
        LET text == Last(responses).text IN
        /\ FormKeys(text, 1) # {} => (ret # None /\ ret[1] \in FormKeys(text, 1))
        /\ (~HasForm(text, 1) /\ FormKeys(text, 2) # {})
              => (ret # None /\ ret[1] \in FormKeys(text, 2))
        /\ (~HasForm(text, 1) /\ ~HasForm(text, 2) /\ FormKeys(text, 3) # {})
              => (ret # None /\ ret[1] \in FormKeys(text, 3))
        /\ (~HasForm(text, 1) /\ ~HasForm(text, 2) /\ ~HasForm(text, 3)) => ret = None

\* C6: the derived origin is scheme://host:443 for every target page URL,
\* whatever port the URL names.
C6_OriginHasPort443 ==
    constructed_url # None =>
        \E s \in Schemes, h \in Hosts, p \in Ports, q \in Paths :
            /\ base_url = UrlOf(s, h, p, q)
            /\ constructed_url = Str(s \o <<"://">> \o h \o <<":", "443">>)

B64Index(c) == (CHOOSE i \in 1..Len(B64Chars) : B64Chars[i] = c) - 1

RECURSIVE B64Decode(_)
B64Decode(s) ==
    IF Len(s) < 2 THEN <<>>
    ELSE LET b1 == B64Index(s[1]) * 4 + (B64Index(s[2]) \div 16) IN
         IF Len(s) = 2 THEN <<b1>>
         ELSE LET b2 == (B64Index(s[2]) % 16) * 16 + (B64Index(s[3]) \div 4) IN
              IF Len(s) = 3 THEN <<b1, b2>>
              ELSE <<b1, b2, (B64Index(s[3]) % 4) * 64 + B64Index(s[4])>>
                       \o B64Decode(SubSeq(s, 5, Len(s)))

\* C7: the encoded origin is as long as the padded base64 text (a multiple
\* of 4), has no "=", ends in as many "." as the padding had "=" (0, 1 or 2
\* by the byte length modulo 3), and before the filler is the unpadded
\* base64 text of the origin's bytes.
C7_EncodedOriginShape ==
    (pc = "returned" /\ constructed_url # None) =>
        LET bytes == Encode(constructed_url[1])
            n == Len(bytes)
            co == ret[1]
            pad == (3 - (n % 3)) % 3
            body == SubSeq(co, 1, Len(co) - pad)
        IN  /\ Len(co) = 4 * ((n + 2) \div 3)
            /\ \A i \in 1..Len(co) : co[i] # "="
            /\ \A i \in 1..Len(co) : (co[i] = ".") <=> (i > Len(co) - pad)
            /\ \A i \in 1..Len(body) : \E j \in 1..Len(B64Chars) : body[i] = B64Chars[j]
            /\ B64Decode(body) = bytes

\* a four-byte origin, two filler characters
C7_Witness ==
    /\ pc = "returned"
    /\ constructed_url = Str(<<"U+00E9", "h", "~">>)
    /\ ret = Str(<<"w", "6", "l", "o", "f", "g", ".", ".">>)

\* C8 as stated: every text with the standard marker resolves to api2 and
\* every text with the enterprise marker resolves to enterprise.
C8_EveryMarkerDecides ==
    pc = "returned" =>
        LET text == Last(responses).text IN
        /\ Contains(text, StandardMarker) => ret = Str(<<"api2">>)
        /\ Contains(text, EnterpriseMarker) => ret = Str(<<"enterprise">>)

\* C8 as amended: the leftmost variant marker of the text decides, api2 for
\* the standard marker and enterprise for the enterprise marker.
C8_LeftmostMarkerDecides ==
    pc = "returned" =>
        LET text == Last(responses).text
            std == FirstAt(text, StandardMarker)
            ent == FirstAt(text, EnterpriseMarker)
        IN  /\ std < ent => ret = Str(<<"api2">>)
            /\ ent < std => ret = Str(<<"enterprise">>)

\* both markers in one text, the standard one first
C8_Witness ==
    /\ pc = "returned"
    /\ Last(responses).text = StandardMarker \o EnterpriseMarker
    /\ ret = Str(<<"api2">>)

\* C9: the anchor GET goes to
\* https://www.google.com/recaptcha/{segment}/anchor?ar=1&k={siteKey}&co={encodedOrigin}&hl=en&size=invisible
\* with segment api2 for the standard variant and enterprise otherwise, and
\* the site key and encoded origin of this resolution unchanged.
C9_AnchorUrlExact ==
    Len(requests) >= 4 =>
        LET text == responses[3].text
            seg == IF FirstAt(text, StandardMarker) < FirstAt(text, EnterpriseMarker)
                   THEN "api2" ELSE "enterprise"
        IN  /\ Truthy(sitekey) /\ Truthy(co_value)
            /\ requests[4] =
                  [method |-> "GET", headers |-> None, params |-> None, data |-> None,
                   url |-> <<"https://www.google.com/recaptcha", "/", seg, "/anchor?ar=1&k=">>
                           \o sitekey[1] \o <<"&co=">> \o co_value[1]
                           \o <<"&hl=en&size=invisible">>]
            /\ B64Decode(RStrip(co_value[1], ".")) = Encode(constructed_url[1])

\* the anchor GET of a standard page at https://a.io with site key K1
C9_Witness ==
    /\ Len(requests) >= 4
    /\ requests[4].url =
          <<"https://www.google.com/recaptcha", "/", "api2", "/anchor?ar=1&k=", "K1", "&co=",
            "a", "H", "R", "0", "c", "H", "M", "6", "L", "y", "9", "h",
            "L", "m", "l", "v", "O", "j", "Q", "0", "M", "w", ".", ".",
            "&hl=en&size=invisible">>

\* C10: the reload POST goes to https://www.google.com/recaptcha/{segment}/reload
\* with params k={siteKey}, the form content type and the body
\* reason=q&c={anchorToken}&k={siteKey}&co={encodedOrigin}; segment, site key
\* and encoded origin are those of the anchor GET before it, the anchor token
\* the one taken from that GET's response.
C10_ReloadRequestExact ==
    Len(requests) >= 5 =>
        LET anchor == requests[4].url
            ico == Min({i \in 1..Len(anchor) : anchor[i] = "&co="})
            seg == anchor[3]
            key == SubSeq(anchor, 5, ico - 1)
            co == SubSeq(anchor, ico + 1, Len(anchor) - 1)
            body == responses[4].text
            token == IF anchor_token = None THEN <<"None">> ELSE anchor_token[1]
        IN  /\ requests[5] =
                  [method |-> "POST",
                   url |-> <<"https://www.google.com/recaptcha", "/", seg, "/reload">>,
                   headers |-> [ContentType |-> "application/x-www-form-urlencoded"],
                   params |-> [k |-> Str(key)],
                   data |-> <<"reason=q&c=">> \o token \o <<"&k=">> \o key
                            \o <<"&co=">> \o co]
            /\ \A v \in {<<"T1">>} : body = TokenField(v) => anchor_token = Str(v)
            /\ ~Contains(body, <<"recaptcha-token">>) => anchor_token = None

\* the reload POST that carries the token T1 of the anchor response
C10_Witness ==
    /\ Len(requests) = 5
    /\ responses[4] = SuccessAnchor
    /\ requests[5].data =
          <<"reason=q&c=", "T1", "&k=", "K2", "&co=",
            "a", "H", "R", "0", "c", "H", "M", "6", "L", "y", "9", "h",
            "L", "m", "l", "v", "O", "j", "Q", "0", "M", "w", ".", ".">>
    /\ requests[5].url = <<"https://www.google.com/recaptcha", "/", "enterprise", "/reload">>

\* C11: a transport failure (a non-2xx status or a connection error) at any
\* fetch of solve_captcha reaches the caller as that error: the request is
\* not issued again, no later request is issued and nothing is returned.
C11_TransportFailurePropagates ==
    \A k \in 1..Len(responses) :
        responses[k].outcome # "2xx" =>
            /\ k = Len(responses)
            /\ Len(requests) = k
            /\ pc = "raised"
            /\ exc = [type |-> IF responses[k].outcome = "non2xx"
                               THEN "HTTPStatusError" ELSE "ConnectError",
                      msg |-> <<>>]
            /\ ret = None

\* the anchor GET answered with a non-2xx status
C11_Witness ==
    /\ Len(responses) = 4
    /\ responses[4].outcome = "non2xx"
    /\ pc = "raised"
    /\ exc.type = "HTTPStatusError"

\* C12: the sitekey and page_action readable on the solver after a call
\* are those of that call alone: what it extracted, and absent where it
\* extracted nothing, so nothing of an earlier call is left after a call
\* that failed.
C12_OnlyLastCallReadable ==
    pc \in {"returned", "raised"} =>
        /\ sitekey = IF Len(responses) >= 1 /\ GetSitekey(responses[1]).exc = NoExc
                     THEN GetSitekey(responses[1]).val ELSE None
        /\ page_action = IF Len(responses) >= 2 /\ GetPageAction(responses[2]).exc = NoExc
                         THEN GetPageAction(responses[2]).val ELSE None

\* What a caller can observe of one resolution on a fresh solver, as a
\* function of the solver's URL and of the responses its transport gave so
\* far: where the call stands, what it raised or returned, the solver's
\* sitekey and page_action, and the requests issued.
Alone(base, resps) ==
    LET n == Len(resps)
        fetch == GetRequest(base)
        k == GetSitekey(resps[1])
        a == GetPageAction(resps[2])
        v == GetApiType(resps[3])
        co == Str(EncodeCo(ConstructUrl(base, <<"443">>)))
        anchor == GetRequest(ConstructAnchor(k.val, co, v.val))
        t == GetAnchorToken(resps[4])
        reload == ReloadRequest(t.val, co, k.val, v.val)
        c == GetCaptchaToken(resps[5])
        at(p, e, r, key, act, reqs) ==
            [pc |-> p, exc |-> e, ret |-> r, sitekey |-> key, page_action |-> act,
             requests |-> reqs]
    IN  IF n = 0 THEN at("idle", NoExc, None, None, None, <<>>)
        ELSE IF k.exc # NoExc THEN at("raised", k.exc, None, None, None, <<fetch>>)
        ELSE IF ~Truthy(k.val)
        THEN at("raised", [type |-> "ValueError", msg |-> <<"Sitekey not found!">>],
                None, k.val, None, <<fetch>>)
        ELSE IF n = 1 THEN at("get_page_action", NoExc, None, k.val, None, <<fetch>>)
        ELSE IF a.exc # NoExc
        THEN at("raised", a.exc, None, k.val, None, <<fetch, fetch>>)
        ELSE IF n = 2
        THEN at("get_api_type", NoExc, None, k.val, a.val, <<fetch, fetch>>)
        ELSE IF v.exc # NoExc
        THEN at("raised", v.exc, None, k.val, a.val, <<fetch, fetch, fetch>>)
        ELSE IF n = 3
        THEN at("get_anchor_token", NoExc, None, k.val, a.val, <<fetch, fetch, fetch>>)
        ELSE IF t.exc # NoExc
        THEN at("raised", t.exc, None, k.val, a.val, <<fetch, fetch, fetch, anchor>>)
        ELSE IF n = 4
        THEN at("get_captcha_token", NoExc, None, k.val, a.val,
                <<fetch, fetch, fetch, anchor>>)
        ELSE IF c.exc # NoExc
        THEN at("raised", c.exc, None, k.val, a.val,
                <<fetch, fetch, fetch, anchor, reload>>)
        ELSE at("returned", NoExc, c.val, k.val, a.val,
                <<fetch, fetch, fetch, anchor, reload>>)

Observed ==
    [pc |-> pc, exc |-> exc, ret |-> ret, sitekey |-> sitekey,
     page_action |-> page_action, requests |-> requests]

\* C13: two resolutions running at once, each with its own transport, share
\* no mutable state: under every interleaving each issues the requests and
\* returns the token and the action label that it would when run alone
\* against the same responses.
C13_ConcurrentAsAlone ==
    LET first == Alone(base_url, responses)
        second == Alone(base_url, peer.responses)
    IN  /\ requests = first.requests
        /\ ret = first.ret
        /\ pc = "returned" => page_action = first.page_action
        /\ peer.requests = second.requests
        /\ peer.ret = second.ret
        /\ peer.pc = "returned" => page_action = second.page_action

\* C14: within one resolution the site key, the action and the variant come
\* from one single response of the target page: whatever the page answers
\* to later requests, the three values agree with one body, and extracting
\* them fetches nothing.
C14_OneBodyOneFetch ==
    pc = "get_anchor_token" =>
        /\ \E k \in 1..Len(responses) :
              /\ sitekey = GetSitekey(responses[k]).val
              /\ page_action = GetPageAction(responses[k]).val
              /\ api_type = GetApiType(responses[k]).val
        /\ Cardinality({i \in 1..Len(requests) : requests[i].url = base_url}) = 1

\* C15: the pattern extractor is total: for every text and each pattern the
\* solver gives it, it returns a non-empty capture or absent and never
\* raises; a match whose capture is empty, as in action: '', yields absent.
C15_ExtractorTotal ==
    pc # "idle" =>
        LET match == Search(Last(responses).text, PageActionPattern) IN
        /\ pc = "returned"
        /\ ret = None \/ Truthy(ret)
        /\ (match.matched /\ match.groups[1] = Str(<<>>)) => ret = None

IsTargetFetch(r) == r.method = "GET" /\ r.url = base_url
IsAnchorGet(r) == r.method = "GET" /\ Len(r.url) >= 4 /\ r.url[4] = "/anchor?ar=1&k="
IsReloadPost(r) == r.method = "POST"
StepOf(r) == IF IsTargetFetch(r) THEN 1 ELSE IF IsAnchorGet(r) THEN 2 ELSE 3
KeyOf(anchor) ==
    SubSeq(anchor, 5, Min({i \in 1..Len(anchor) : anchor[i] = "&co="}) - 1)

\* C16: in every run of solve_captcha, failing ones included, the requests
\* go target page, anchor, reload in that order: an anchor GET comes after a
\* target fetch that gave a non-empty site key and carries that key as k, a
\* reload POST comes after a completed anchor GET, there is one anchor GET
\* and one POST at most, and the POST is the last request.
C16_HandshakeOrder ==
    /\ \A i, j \in 1..Len(requests) :
          i < j => /\ StepOf(requests[i]) <= StepOf(requests[j])
                   /\ StepOf(requests[j]) > 1 => StepOf(requests[i]) < StepOf(requests[j])
    /\ \A i \in 1..Len(requests) :
          IsAnchorGet(requests[i]) =>
              \E j \in 1..(i - 1) :
                  /\ IsTargetFetch(requests[j])
                  /\ responses[j].outcome = "2xx"
                  /\ Truthy(GetSitekey(responses[j]).val)
                  /\ KeyOf(requests[i].url) = GetSitekey(responses[j]).val[1]
    /\ \A i \in 1..Len(requests) :
          IsReloadPost(requests[i]) =>
              /\ i = Len(requests)
              /\ \E j \in 1..(i - 1) :
                    /\ IsAnchorGet(requests[j])
                    /\ responses[j].outcome = "2xx"
                    /\ GetAnchorToken(responses[j]).exc = NoExc

\* a run that went through to the reload POST and the POST failed
C16_Witness ==
    /\ pc = "raised"
    /\ Len(requests) = 5
    /\ IsAnchorGet(requests[4])
    /\ IsReloadPost(requests[5])
    /\ responses[5].outcome = "connect"

\* C17: verbose mode is diagnostic only: whatever the transport answers,
\* absent action, anchor token or verification token included, a resolution
\* with verbose on issues the requests, returns or raises, and leaves the
\* sitekey and page_action that the responses alone determine, the same as
\* with verbose off; the only difference is the table on the console.
C17_VerboseIsDiagnostic ==
    /\ Observed = Alone(base_url, responses)
    /\ console # <<>> => verbose /\ pc = "returned" /\ Len(console) = 1
    /\ (verbose /\ pc = "returned") => console = <<CaptchaData(ret)>>

\* a verbose run that returned, with no action, no anchor token and no
\* verification token in its table
C17_Witness ==
    /\ verbose
    /\ pc = "returned"
    /\ Len(console) = 1
    /\ console[1].page_action = None
    /\ console[1].anchor_token = None
    /\ console[1].captcha_token = None
    /\ ret = None

DefaultClients == {c \in 1..Len(transport.clients) : transport.clients[c].by_default}

\* C18: the transport timeout is a per-client random value between 10 and
\* 15: each client constructed with the default has a draw of its own, made
\* at its construction, and every request through a client goes with the
\* timeout the client was constructed with.
C18_TimeoutDrawnPerClient ==
    /\ \A c \in DefaultClients : transport.clients[c].timeout \in 10..15
    /\ \A i \in 1..Len(transport.sent) :
          transport.sent[i].timeout = transport.clients[transport.sent[i].client].timeout
    /\ DefaultClients # {} => transport.draws = Cardinality(DefaultClients)

====
